---- MODULE Spec2Model ----
(***************************************************************************)
(* Token lifecycle of the user-service: TokenManager of                    *)
(* user-service/internal/utils/jwt/jwt.go over a Redis session store.      *)
(*                                                                         *)
(* Strings are modelled as sequences of atoms, so that key construction    *)
(* (concatenation versus fmt.Sprintf) is computed the way the code does    *)
(* it.  The clock counts ticks; a JWT NumericDate is a whole second        *)
(* (TicksPerSecond ticks), a Redis deadline is a tick.                     *)
(*                                                                         *)
(* Five specifications share the state:                                    *)
(*   Spec         the methods of TokenManager, each call as one step;      *)
(*   SpecConc     RefreshToken run statement by statement by two           *)
(*                goroutines, beside logins and cancelled requests;        *)
(*   SpecRace     RefreshToken and Logout of one subject run statement by  *)
(*                statement by two goroutines;                             *)
(*   SpecAuth     the requests of AuthHandler (login, refresh, logout      *)
(*                behind AuthMiddleware) and of the gateway plugin;        *)
(*   SpecAccounts the requests that read or change the users table         *)
(*                (register, login, authService.ValidateToken, delete).    *)
(***************************************************************************)
EXTENDS Integers, Sequences, FiniteSets, TLC

\* ------------------------------------------------------------ bounds
\* Last tick of the clock.
MaxTime == 4
\* Most calls of the token manager in a run.
MaxCalls == 3
\* Most calls of a run in which a store call fails.
MaxFailures == 1
\* config.JWTConfig.Expiration and .RefreshExpiration, in seconds.
Expiration == 1
RefreshExpiration == 2

\* ------------------------------------------------------------ time
\* Resolution of the clock: ticks in the second jwt.NewNumericDate truncates to.
TicksPerSecond == 2

\* ------------------------------------------------------------ data
Users == {"u1", "u2"}

\* A string is a sequence of atoms; Lit(s) is the string made of the text s.
Lit(s) == <<[lit |-> s]>>

\* entities.User: the ID and Email the token manager reads.
User(id) == [ID |-> id, Email |-> <<id, "@example.com">>]

AccessToken == "access"
RefreshToken == "refresh"
TokenTypes == {AccessToken, RefreshToken}

secretKey == "your-private-key"
ForeignKey == "another-key"

\* Redis key prefixes, as the strings they are: the text and the verb.
refreshTokenPrefix == Lit("refresh:") \o Lit("%d")
accessTokenPrefix == Lit("access:") \o Lit("%d")
blacklistPrefix == Lit("blacklist:") \o Lit("%s")

NoExpiry == -1
Nil == "nil"
RedisNil == "redis: nil"
RedisDown == "redis: connection refused"

\* ------------------------------------------------------------ strings
\* fmt.Sprintf(format, args...): each %s verb of the FORMAT is replaced by the
\* next argument; a verb inside an argument is copied as it is.
RECURSIVE Sprintf(_, _)
Sprintf(format, args) ==
    IF format = <<>> THEN <<>>
    ELSE IF <<Head(format)>> = Lit("%s") /\ args # <<>>
         THEN Head(args) \o Sprintf(Tail(format), Tail(args))
         ELSE <<Head(format)>> \o Sprintf(Tail(format), args)

\* The keys as each call site builds them.  First a slip: the prefix used as
\* the format of the refresh key.
GenRefreshKeyFormatted(userID) == Sprintf(refreshTokenPrefix, <<Lit(userID)>>)

GenRefreshKey(userID) == Sprintf(Lit("%s") \o Lit("%s"), <<refreshTokenPrefix, Lit(userID)>>)

\* A slip: the access key built without the user ID, one key for all users.
GenAccessKeyShared(userID) == Sprintf(Lit("%s"), <<accessTokenPrefix>>)

GenAccessKey(userID) == Sprintf(Lit("%s") \o Lit("%s"), <<accessTokenPrefix, Lit(userID)>>)
VerifyRefreshKey(userID) == Sprintf(Lit("%s") \o Lit("%s"), <<refreshTokenPrefix, Lit(userID)>>)

\* A slip: the key built with the prefix as the format, as isTokenBlacklisted
\* builds its key, so that the %d verb eats the user ID.
LogoutRefreshKeyFormatted(userID) == Sprintf(refreshTokenPrefix, <<Lit(userID)>>)

LogoutRefreshKey(userID) == refreshTokenPrefix \o Lit(userID)
LogoutAccessKey(userID) == accessTokenPrefix \o Lit(userID)
BlacklistReadKey(tokenString) == Sprintf(blacklistPrefix, <<tokenString>>)
BlacklistWriteKey(tokenString) == blacklistPrefix \o tokenString

\* ------------------------------------------------------------ token codec
\* HMAC of the signing input under a key: equal exactly for equal key and input.
HMAC(key, alg, claims) == [key |-> key, msg |-> <<alg, claims>>]

\* jwt.NewNumericDate: a time truncated to the second.
NumericDate(t) == t \div TicksPerSecond

\* The instant, in ticks, a NumericDate stands for.
TimeOf(sec) == sec * TicksPerSecond

\* jwt.NewWithClaims(HS256, claims).SignedString(key): the token string.
SignedString(claims, key) ==
    <<[alg |-> "HS256", claims |-> claims, sig |-> HMAC(key, "HS256", claims)]>>

\* generateToken: expiration in seconds, now in ticks.
NewClaims(user, tokenType, expiration, now) ==
    [user_id |-> user.ID,
     email |-> user.Email,
     exp |-> NumericDate(now + TimeOf(expiration)),
     iat |-> NumericDate(now),
     nbf |-> NumericDate(now),
     iss |-> "todolistapi",
     sub |-> tokenType]

generateToken(user, tokenType, expiration, now) ==
    [tokenString |-> SignedString(NewClaims(user, tokenType, expiration, now), secretKey),
     claims |-> NewClaims(user, tokenType, expiration, now)]

\* jwt.ParseWithClaims with the key function of ValidateToken.
WellFormed(tokenString) ==
    /\ Len(tokenString) = 1
    /\ DOMAIN tokenString[1] = {"alg", "claims", "sig"}


\* A slip: parsing with claims validation switched off (no expiry check).
ParseWithoutClaimsValidation(tokenString, now) ==
    IF ~WellFormed(tokenString)
    THEN [err |-> "token is malformed"]
    ELSE LET tok == tokenString[1] IN
         IF tok.alg \notin {"HS256", "HS384", "HS512"}
         THEN [err |-> "unexpected signing method"]
         ELSE IF tok.sig # HMAC(secretKey, tok.alg, tok.claims)
         THEN [err |-> "signature is invalid"]
         ELSE [err |-> Nil, claims |-> tok.claims]

ParseWithClaims(tokenString, now) ==
    IF ~WellFormed(tokenString)
    THEN [err |-> "token is malformed"]
    ELSE LET tok == tokenString[1] IN
         IF tok.alg \notin {"HS256", "HS384", "HS512"}
         THEN [err |-> "unexpected signing method"]
         ELSE IF tok.sig # HMAC(secretKey, tok.alg, tok.claims)
         THEN [err |-> "signature is invalid"]
         ELSE IF ~(now < TimeOf(tok.claims.exp))
         THEN [err |-> "token is expired"]
         ELSE IF ~(now >= TimeOf(tok.claims.nbf))
         THEN [err |-> "token is not valid yet"]
         ELSE [err |-> Nil, claims |-> tok.claims]

\* ------------------------------------------------------------ the store
\* A store maps each live key to its value and deadline (a tick, or NoExpiry).
\* redis SET key val [PX ttl]: go-redis sends an expiry only for ttl > 0.
RedisSet(s, key, val, ttl, now) ==
    [k \in DOMAIN s \cup {key} |->
        IF k = key
        THEN [val |-> val, dl |-> IF ttl > 0 THEN now + ttl ELSE NoExpiry]
        ELSE s[k]]

RedisGet(s, key) ==
    IF key \in DOMAIN s THEN [val |-> s[key].val, err |-> Nil]
    ELSE [val |-> <<>>, err |-> RedisNil]

RedisExists(s, key) == IF key \in DOMAIN s THEN 1 ELSE 0

RedisDel(s, keys) == [k \in DOMAIN s \ keys |-> s[k]]

\* Redis drops the keys whose deadline has come.
Expire(s, now) ==
    [k \in {j \in DOMAIN s : s[j].dl = NoExpiry \/ now < s[j].dl} |-> s[k]]

\* ------------------------------------------------------------ TokenManager
\* Each operation takes the store s and the clock, and the set `down` of its
\* store calls (numbered in program order) that fail with a connection error.


\* A slip: the access token stored before the refresh token.
GenerateTokenPairAccessFirst(s, user, now, down, base) ==
    LET access == generateToken(user, AccessToken, Expiration, now)
        refresh == generateToken(user, RefreshToken, RefreshExpiration, now)
        created == {access.tokenString, refresh.tokenString}
        s1 == RedisSet(s, GenAccessKey(user.ID), access.tokenString,
                       TimeOf(access.claims.exp) - now, now)
        s2 == RedisSet(s1, GenRefreshKey(user.ID), refresh.tokenString,
                       TimeOf(refresh.claims.exp) - now, now)
    IN  IF base + 1 \in down
        THEN [store |-> s, err |-> "failed to store access token",
              access |-> <<>>, refresh |-> <<>>, created |-> created]
        ELSE IF base + 2 \in down
        THEN [store |-> s1, err |-> "failed to store refresh token",
              access |-> <<>>, refresh |-> <<>>, created |-> created]
        ELSE [store |-> s2, err |-> Nil,
              access |-> access.tokenString, refresh |-> refresh.tokenString,
              created |-> created]

\* A slip: the access token is stored under the refresh key.
GenerateTokenPairSameKey(s, user, now, down, base) ==
    LET access == generateToken(user, AccessToken, Expiration, now)
        refresh == generateToken(user, RefreshToken, RefreshExpiration, now)
        created == {access.tokenString, refresh.tokenString}
        s1 == RedisSet(s, GenRefreshKey(user.ID), refresh.tokenString,
                       TimeOf(refresh.claims.exp) - now, now)
        s2 == RedisSet(s1, GenRefreshKey(user.ID), access.tokenString,
                       TimeOf(access.claims.exp) - now, now)
    IN  IF base + 1 \in down
        THEN [store |-> s, err |-> "failed to store refresh token",
              access |-> <<>>, refresh |-> <<>>, created |-> created]
        ELSE IF base + 2 \in down
        THEN [store |-> s1, err |-> "failed to store access token",
              access |-> <<>>, refresh |-> <<>>, created |-> created]
        ELSE [store |-> s2, err |-> Nil,
              access |-> access.tokenString, refresh |-> refresh.tokenString,
              created |-> created]

\* GenerateTokenPair: its two SETs are the calls base+1 and base+2.
GenerateTokenPair(s, user, now, down, base) ==
    LET access == generateToken(user, AccessToken, Expiration, now)
        refresh == generateToken(user, RefreshToken, RefreshExpiration, now)
        created == {access.tokenString, refresh.tokenString}
        s1 == RedisSet(s, GenRefreshKey(user.ID), refresh.tokenString,
                       TimeOf(refresh.claims.exp) - now, now)
        s2 == RedisSet(s1, GenAccessKey(user.ID), access.tokenString,
                       TimeOf(access.claims.exp) - now, now)
    IN  IF base + 1 \in down
        THEN [store |-> s, err |-> "failed to store refresh token",
              access |-> <<>>, refresh |-> <<>>, created |-> created]
        ELSE IF base + 2 \in down
        THEN [store |-> s1, err |-> "failed to store access token",
              access |-> <<>>, refresh |-> <<>>, created |-> created]
        ELSE [store |-> s2, err |-> Nil,
              access |-> access.tokenString, refresh |-> refresh.tokenString,
              created |-> created]

\* isTokenBlacklisted: EXISTS is call 1.
isTokenBlacklisted(s, tokenString, down) ==
    IF 1 \in down
    THEN [blacklisted |-> FALSE, err |-> "failed to check token status"]
    ELSE [blacklisted |-> RedisExists(s, BlacklistReadKey(tokenString)) = 1, err |-> Nil]


\* A slip: the stored value is fetched but not compared with the token.
verifyRefreshTokenPresentOnly(s, claims, tokenString, down) ==
    LET got == IF 2 \in down THEN [val |-> <<>>, err |-> RedisDown]
               ELSE RedisGet(s, VerifyRefreshKey(claims.user_id))
    IN  IF got.err # Nil
        THEN "invalid or expired refresh token"
        ELSE Nil

\* verifyRefreshTokenInRedis: GET is call 2.
verifyRefreshTokenInRedis(s, claims, tokenString, down) ==
    LET got == IF 2 \in down THEN [val |-> <<>>, err |-> RedisDown]
               ELSE RedisGet(s, VerifyRefreshKey(claims.user_id))
    IN  IF got.err # Nil \/ got.val # tokenString
        THEN "invalid or expired refresh token"
        ELSE Nil

NoClaims == [none |-> TRUE]

\* A slip: the token type is not verified.
ValidateTokenAnyType(s, tokenString, tokenType, now, down) ==
    LET bl == isTokenBlacklisted(s, tokenString, down)
        parsed == ParseWithClaims(tokenString, now)
    IN  IF bl.err # Nil THEN [claims |-> NoClaims, err |-> bl.err]
        ELSE IF bl.blacklisted THEN [claims |-> NoClaims, err |-> "token has been invalidated"]
        ELSE IF parsed.err # Nil THEN [claims |-> NoClaims, err |-> "invalid token"]
        ELSE IF tokenType = RefreshToken
                /\ verifyRefreshTokenInRedis(s, parsed.claims, tokenString, down) # Nil
        THEN [claims |-> NoClaims,
              err |-> verifyRefreshTokenInRedis(s, parsed.claims, tokenString, down)]
        ELSE [claims |-> parsed.claims, err |-> Nil]

\* A slip: the stored session value is compared for every token type.
ValidateTokenVerifiesAlways(s, tokenString, tokenType, now, down) ==
    LET bl == isTokenBlacklisted(s, tokenString, down)
        parsed == ParseWithClaims(tokenString, now)
    IN  IF bl.err # Nil THEN [claims |-> NoClaims, err |-> bl.err]
        ELSE IF bl.blacklisted THEN [claims |-> NoClaims, err |-> "token has been invalidated"]
        ELSE IF parsed.err # Nil THEN [claims |-> NoClaims, err |-> "invalid token"]
        ELSE IF parsed.claims.sub # tokenType
        THEN [claims |-> NoClaims, err |-> "invalid token type"]
        ELSE IF verifyRefreshTokenInRedis(s, parsed.claims, tokenString, down) # Nil
        THEN [claims |-> NoClaims,
              err |-> verifyRefreshTokenInRedis(s, parsed.claims, tokenString, down)]
        ELSE [claims |-> parsed.claims, err |-> Nil]

ValidateToken(s, tokenString, tokenType, now, down) ==
    LET bl == isTokenBlacklisted(s, tokenString, down)
        parsed == ParseWithClaims(tokenString, now)
    IN  IF bl.err # Nil THEN [claims |-> NoClaims, err |-> bl.err]
        ELSE IF bl.blacklisted THEN [claims |-> NoClaims, err |-> "token has been invalidated"]
        ELSE IF parsed.err # Nil THEN [claims |-> NoClaims, err |-> "invalid token"]
        ELSE IF parsed.claims.sub # tokenType
        THEN [claims |-> NoClaims, err |-> "invalid token type"]
        ELSE IF tokenType = RefreshToken
                /\ verifyRefreshTokenInRedis(s, parsed.claims, tokenString, down) # Nil
        THEN [claims |-> NoClaims,
              err |-> verifyRefreshTokenInRedis(s, parsed.claims, tokenString, down)]
        ELSE [claims |-> parsed.claims, err |-> Nil]

\* A slip: the blacklist entry is written whether or not the GET found a token.
LogoutAlwaysBlacklists(s, userID, now, down) ==
    LET got == IF 1 \in down THEN [val |-> <<>>, err |-> RedisDown]
               ELSE RedisGet(s, LogoutRefreshKey(userID))
        s1 == IF 2 \notin down
              THEN RedisSet(s, BlacklistWriteKey(got.val), Lit("1"),
                            TimeOf(RefreshExpiration), now)
              ELSE s
    IN  IF 3 \in down
        THEN [store |-> s1, err |-> RedisDown, refreshToken |-> got.val]
        ELSE [store |-> RedisDel(s1, {LogoutRefreshKey(userID), LogoutAccessKey(userID)}),
              err |-> Nil, refreshToken |-> got.val]

\* Logout: GET is call 1, the blacklist SET call 2 (its result is dropped),
\* DEL of both session keys call 3.
Logout(s, userID, now, down) ==
    LET got == IF 1 \in down THEN [val |-> <<>>, err |-> RedisDown]
               ELSE RedisGet(s, LogoutRefreshKey(userID))
        s1 == IF got.err = Nil /\ 2 \notin down
              THEN RedisSet(s, BlacklistWriteKey(got.val), Lit("1"),
                            TimeOf(RefreshExpiration), now)
              ELSE s
    IN  IF 3 \in down
        THEN [store |-> s1, err |-> RedisDown, refreshToken |-> got.val]
        ELSE [store |-> RedisDel(s1, {LogoutRefreshKey(userID), LogoutAccessKey(userID)}),
              err |-> Nil, refreshToken |-> got.val]

\* InvalidateToken: one SET, call 1; expiration in ticks.
InvalidateToken(s, tokenString, tokenType, expiration, now, down) ==
    IF 1 \in down
    THEN [store |-> s, err |-> RedisDown]
    ELSE [store |-> RedisSet(s, BlacklistWriteKey(tokenString), Lit("1"), expiration, now),
          err |-> Nil]

\* A slip: the presented refresh token is handed back instead of the new one.
RefreshTokenReturnsPresented(s, refreshToken, now, down) ==
    LET v == ValidateToken(s, refreshToken, RefreshToken, now, down)
        user == [ID |-> v.claims.user_id, Email |-> v.claims.email]
        pair == GenerateTokenPair(s, user, now, down, 2)
    IN  IF v.err # Nil
        THEN [store |-> s, err |-> v.err, access |-> <<>>, refresh |-> <<>>, created |-> {}]
        ELSE IF pair.err # Nil THEN pair
        ELSE [pair EXCEPT !.refresh = refreshToken]

\* RefreshToken: ValidateToken's calls are 1 and 2, GenerateTokenPair's 3 and 4.
RefreshTokenOp(s, refreshToken, now, down) ==
    LET v == ValidateToken(s, refreshToken, RefreshToken, now, down)
        user == [ID |-> v.claims.user_id, Email |-> v.claims.email]
    IN  IF v.err # Nil
        THEN [store |-> s, err |-> v.err, access |-> <<>>, refresh |-> <<>>, created |-> {}]
        ELSE GenerateTokenPair(s, user, now, down, 2)

\* ------------------------------------------------------------ state
VARIABLES
    store,   \* the Redis keyspace: key -> [val, dl]
    now,     \* the clock, in ticks
    issued,  \* every token string generateToken has produced
    stale,   \* refresh token strings that passed validation once and later did not
    last,    \* the operation that ran last, its arguments and what it returned
    calls,   \* the calls made so far
    failures,\* the calls so far in which a store call failed
    procs,   \* the calls in progress, one per goroutine, each at a step of its code
    users    \* the rows of the users table, the soft-deleted ones included

vars == <<store, now, issued, stale, last, calls, failures, procs, users>>

\* ValidateToken with the store reachable.
Passes(s, tokenString, tokenType, t) == ValidateToken(s, tokenString, tokenType, t, {}).err = Nil

\* Token strings an outsider may present besides the issued ones: garbage, a token
\* signed under another key, an unsigned one, and one signed by this key whose
\* lifetime was negative.
Crafted(t) ==
    {Lit("garbage")}
    \cup {SignedString(NewClaims(User("u1"), k, Expiration, t), ForeignKey) : k \in TokenTypes}
    \cup {<<[alg |-> "none", claims |-> NewClaims(User("u1"), AccessToken, Expiration, t),
             sig |-> HMAC(secretKey, "none", NewClaims(User("u1"), AccessToken, Expiration, t))]>>}
    \cup {generateToken(User("u1"), k, -1, t).tokenString : k \in TokenTypes}

\* The claims of a well-formed token string, read without verifying anything,
\* and the kind they name.
ClaimsOf(tokenString) == tokenString[1].claims
KindOf(tokenString) == ClaimsOf(tokenString).sub

\* The token strings the store holds as session values.
Held(s) == {s[k].val : k \in {j \in DOMAIN s : Head(j) \in {Head(refreshTokenPrefix), Head(accessTokenPrefix)}}}

\* TTLs, in ticks, that InvalidateToken is called with.
InvalidateTTLs == {TicksPerSecond}

\* The failures of one call: none, or one of its n store calls.
Failures(n) == {{}} \cup {{i} : i \in 1..n}

NoCall == [op |-> "none", user |-> "", token |-> <<>>, kind |-> "", ttl |-> 0, err |-> Nil,
           claims |-> NoClaims, access |-> <<>>, refresh |-> <<>>, created |-> {}]

\* One more call, in which the store calls in `down` fail if the run has
\* failures left.
Fails(down) ==
    /\ calls < MaxCalls
    /\ down # {} => failures < MaxFailures
    /\ calls' = calls + 1
    /\ failures' = IF down # {} THEN failures + 1 ELSE failures

\* The history kept beside the program state after a step to store s2 at t2.
Remember(s2, t2, created) ==
    /\ issued' = issued \cup created
    /\ stale' = stale \cup {tok \in issued :
                              /\ Passes(store, tok, RefreshToken, now)
                              /\ ~Passes(s2, tok, RefreshToken, t2)}

\* The goroutines that run a call step by step, and one that runs none.
Procs == {"p1", "p2"}
IdleProc == [pc |-> "idle", token |-> <<>>, access |-> <<>>, refresh |-> <<>>,
             err |-> Nil, cancelled |-> FALSE, order |-> 0, userID |-> ""]

\* The users table at the start: every user of Users is registered, with one
\* password, and no row is deleted.
PasswordOf(u) == "correct horse"
HashPassword(password) == [bcrypt |-> password]
Directory == {[ID |-> u, Email |-> User(u).Email, Password |-> HashPassword(PasswordOf(u)),
               DeletedAt |-> Nil] : u \in Users}
NilUser == [nil |-> TRUE]

Init ==
    /\ store = <<>>
    /\ now = 0
    /\ issued = {}
    /\ stale = {}
    /\ last = NoCall
    /\ calls = 0
    /\ failures = 0
    /\ procs = [p \in Procs |-> IdleProc]
    /\ users = Directory

\* Time passes; Redis expires what is due.
Tick ==
    /\ now < MaxTime
    /\ now' = now + 1
    /\ store' = Expire(store, now + 1)
    /\ last' = NoCall
    /\ Remember(Expire(store, now + 1), now + 1, {})
    /\ UNCHANGED <<calls, failures, procs, users>>

\* Login or Register reaching generateAuthResponse: GenerateTokenPair(user).
GenerateTokenPairFor(u) ==
    \E down \in Failures(2) :
        /\ Fails(down)
        /\ \E r \in {GenerateTokenPair(store, User(u), now, down, 0)} :
               /\ store' = r.store
               /\ last' = [NoCall EXCEPT !.op = "GenerateTokenPair", !.user = u, !.err = r.err,
                                         !.access = r.access, !.refresh = r.refresh,
                                         !.created = r.created]
               /\ Remember(r.store, now, r.created)
               /\ UNCHANGED <<now, procs, users>>

CallGenerateTokenPair == \E u \in Users : GenerateTokenPairFor(u)

CallValidateToken ==
    \E tok \in issued, k \in TokenTypes, down \in Failures(2) :
        /\ Fails(down)
        /\ \E r \in {ValidateToken(store, tok, k, now, down)} :
               /\ last' = [NoCall EXCEPT !.op = "ValidateToken", !.token = tok, !.kind = k,
                                         !.err = r.err, !.claims = r.claims]
               /\ Remember(store, now, {})
               /\ UNCHANGED <<store, now, procs, users>>

CallRefreshToken ==
    \E tok \in issued \cup {Lit("garbage")}, down \in Failures(4) :
        /\ Fails(down)
        /\ \E r \in {RefreshTokenOp(store, tok, now, down)} :
               /\ store' = r.store
               /\ last' = [NoCall EXCEPT !.op = "RefreshToken", !.token = tok, !.err = r.err,
                                         !.access = r.access, !.refresh = r.refresh,
                                         !.created = r.created]
               /\ Remember(r.store, now, r.created)
               /\ UNCHANGED <<now, procs, users>>

CallLogout ==
    \E u \in Users, down \in Failures(3) :
        /\ Fails(down)
        /\ \E r \in {Logout(store, u, now, down)} :
               /\ store' = r.store
               /\ last' = [NoCall EXCEPT !.op = "Logout", !.user = u, !.err = r.err,
                                         !.token = r.refreshToken]
               /\ Remember(r.store, now, {})
               /\ UNCHANGED <<now, procs, users>>

CallInvalidateToken ==
    \E tok \in Held(store), ttl \in InvalidateTTLs, down \in Failures(1) :
        /\ Fails(down)
        /\ \E r \in {InvalidateToken(store, tok, KindOf(tok), ttl, now, down)} :
               /\ store' = r.store
               /\ last' = [NoCall EXCEPT !.op = "InvalidateToken", !.token = tok,
                                         !.ttl = ttl, !.err = r.err]
               /\ Remember(r.store, now, {})
               /\ UNCHANGED <<now, procs, users>>

Next ==
    \/ Tick
    \/ CallGenerateTokenPair
    \/ CallValidateToken
    \/ CallRefreshToken
    \/ CallLogout
    \/ CallInvalidateToken

Spec == Init /\ [][Next]_vars

\* ------------------------------------------------------------ concurrent calls
\* RefreshToken run by a goroutine one statement at a time, so that the store
\* calls of two requests interleave.  The position pc names the statement the
\* goroutine executes next.

\* The context the store calls are made with, and the caller's request context.
Background == "context.Background"
RequestCtx == "request"
StoreCtx == Background
Canceled == "context canceled"

\* A store call made with ctx by p aborts when ctx is done.
Aborted(p, ctx) == ctx = RequestCtx /\ procs[p].cancelled

\* The statements at which a goroutine waits for the store.
StoreSteps == {"exists", "get", "setRefresh", "setAccess"}

\* The store answers this call, or fails it if the run has failures left.
StoreAnswers(fail) ==
    /\ fail => failures < MaxFailures
    /\ failures' = IF fail THEN failures + 1 ELSE failures

\* p moves to the record q; the store becomes s2; `created` tokens are new.
Step(p, q, s2, created) ==
    /\ procs' = [procs EXCEPT ![p] = q]
    /\ store' = s2
    /\ Remember(s2, now, created)
    /\ UNCHANGED <<now, last, users>>

\* p returns err from RefreshToken.
Return(p, err) == [procs[p] EXCEPT !.pc = "done", !.err = err]

\* A request presenting a refresh token the store holds reaches RefreshToken.
RefreshStart(p) ==
    \E tok \in {t \in Held(store) : KindOf(t) = RefreshToken} :
        /\ procs[p].pc = "idle"
        /\ calls < MaxCalls
        /\ calls' = calls + 1
        /\ Step(p, [procs[p] EXCEPT !.pc = "exists", !.token = tok], store, {})
        /\ UNCHANGED failures

\* isTokenBlacklisted, from ValidateToken.
StepIsTokenBlacklisted(p) ==
    \E fail \in BOOLEAN :
        /\ procs[p].pc = "exists"
        /\ StoreAnswers(fail)
        /\ UNCHANGED calls
        /\ Step(p,
                IF Aborted(p, StoreCtx) THEN Return(p, Canceled)
                ELSE IF fail THEN Return(p, "failed to check token status")
                ELSE IF RedisExists(store, BlacklistReadKey(procs[p].token)) = 1
                THEN Return(p, "token has been invalidated")
                ELSE [procs[p] EXCEPT !.pc = "parse"],
                store, {})

\* jwt.ParseWithClaims and the token type check of ValidateToken.
StepParse(p) ==
    /\ procs[p].pc = "parse"
    /\ Step(p,
            IF ParseWithClaims(procs[p].token, now).err # Nil THEN Return(p, "invalid token")
            ELSE IF ClaimsOf(procs[p].token).sub # RefreshToken
            THEN Return(p, "invalid token type")
            ELSE [procs[p] EXCEPT !.pc = "get"],
            store, {})
    /\ UNCHANGED <<calls, failures>>

\* verifyRefreshTokenInRedis, from ValidateToken.
StepVerifyRefreshTokenInRedis(p) ==
    \E fail \in BOOLEAN :
        /\ procs[p].pc = "get"
        /\ StoreAnswers(fail)
        /\ UNCHANGED calls
        /\ Step(p,
                IF Aborted(p, StoreCtx) THEN Return(p, Canceled)
                ELSE IF fail \/ RedisGet(store, VerifyRefreshKey(ClaimsOf(procs[p].token).user_id)).val
                                   # procs[p].token
                THEN Return(p, "invalid or expired refresh token")
                ELSE [procs[p] EXCEPT !.pc = "genAccess"],
                store, {})

\* The user RefreshToken rebuilds from the claims of the presented token.
UserOf(p) == [ID |-> ClaimsOf(procs[p].token).user_id, Email |-> ClaimsOf(procs[p].token).email]

\* GenerateTokenPair: generateToken of the access token, reading the clock.
StepGenerateAccess(p) ==
    /\ procs[p].pc = "genAccess"
    /\ \E g \in {generateToken(UserOf(p), AccessToken, Expiration, now)} :
           Step(p, [procs[p] EXCEPT !.pc = "genRefresh", !.access = g.tokenString],
                store, {g.tokenString})
    /\ UNCHANGED <<calls, failures>>

\* GenerateTokenPair: generateToken of the refresh token, reading the clock.
StepGenerateRefresh(p) ==
    /\ procs[p].pc = "genRefresh"
    /\ \E g \in {generateToken(UserOf(p), RefreshToken, RefreshExpiration, now)} :
           Step(p, [procs[p] EXCEPT !.pc = "setRefresh", !.refresh = g.tokenString],
                store, {g.tokenString})
    /\ UNCHANGED <<calls, failures>>

\* The writes so far of refresh tokens by the goroutines.
Writes == Cardinality({q \in Procs : procs[q].order > 0})

\* GenerateTokenPair: SET of the refresh token, with time.Until(ExpiresAt).
StepStoreRefresh(p) ==
    \E fail \in BOOLEAN :
        /\ procs[p].pc = "setRefresh"
        /\ StoreAnswers(fail)
        /\ UNCHANGED calls
        /\ IF Aborted(p, StoreCtx) THEN Step(p, Return(p, Canceled), store, {})
           ELSE IF fail THEN Step(p, Return(p, "failed to store refresh token"), store, {})
           ELSE Step(p, [procs[p] EXCEPT !.pc = "setAccess", !.order = Writes + 1],
                     RedisSet(store, GenRefreshKey(UserOf(p).ID), procs[p].refresh,
                              TimeOf(ClaimsOf(procs[p].refresh).exp) - now, now),
                     {})

\* GenerateTokenPair: SET of the access token, and the return of the pair.
StepStoreAccess(p) ==
    \E fail \in BOOLEAN :
        /\ procs[p].pc = "setAccess"
        /\ StoreAnswers(fail)
        /\ UNCHANGED calls
        /\ IF Aborted(p, StoreCtx) THEN Step(p, Return(p, Canceled), store, {})
           ELSE IF fail THEN Step(p, Return(p, "failed to store access token"), store, {})
           ELSE Step(p, Return(p, Nil),
                     RedisSet(store, GenAccessKey(UserOf(p).ID), procs[p].access,
                              TimeOf(ClaimsOf(procs[p].access).exp) - now, now),
                     {})

\* The caller's request context is cancelled while p waits for the store.
CancelRequest(p) ==
    /\ procs[p].pc \in StoreSteps
    /\ ~procs[p].cancelled
    /\ procs' = [procs EXCEPT ![p].cancelled = TRUE]
    /\ UNCHANGED <<store, now, issued, stale, last, calls, failures, users>>

NextConc ==
    \/ Tick
    \/ CallGenerateTokenPair
    \/ \E p \in Procs : RefreshStart(p)
    \/ \E p \in Procs : StepIsTokenBlacklisted(p)
    \/ \E p \in Procs : StepParse(p)
    \/ \E p \in Procs : StepVerifyRefreshTokenInRedis(p)
    \/ \E p \in Procs : StepGenerateAccess(p)
    \/ \E p \in Procs : StepGenerateRefresh(p)
    \/ \E p \in Procs : StepStoreRefresh(p)
    \/ \E p \in Procs : StepStoreAccess(p)
    \/ \E p \in Procs : CancelRequest(p)

SpecConc == Init /\ [][NextConc]_vars

\* ------------------------------------------------------------ a refresh and a logout in flight
\* Logout run by a goroutine one statement at a time, beside RefreshToken.

\* The subject whose calls race.
RaceSubject == "u1"

\* A session of the subject is established while no goroutine has started.
Establish ==
    /\ \A p \in Procs : procs[p].pc = "idle"
    /\ GenerateTokenPairFor(RaceSubject)

\* A request of a subject that has logged in reaches Logout.
LogoutStart(p) ==
    \E u \in {ClaimsOf(tok).user_id : tok \in issued} :
        /\ procs[p].pc = "idle"
        /\ calls < MaxCalls
        /\ calls' = calls + 1
        /\ Step(p, [procs[p] EXCEPT !.pc = "logoutGet", !.userID = u], store, {})
        /\ UNCHANGED failures

\* Logout: GET of the refresh token of the user.
StepLogoutGet(p) ==
    \E fail \in BOOLEAN :
        /\ procs[p].pc = "logoutGet"
        /\ StoreAnswers(fail)
        /\ UNCHANGED calls
        /\ Step(p,
                IF Aborted(p, StoreCtx) \/ fail
                   \/ RedisGet(store, LogoutRefreshKey(procs[p].userID)).err # Nil
                THEN [procs[p] EXCEPT !.pc = "logoutDel"]
                ELSE [procs[p] EXCEPT !.pc = "logoutSet",
                                      !.token = RedisGet(store, LogoutRefreshKey(procs[p].userID)).val],
                store, {})

\* Logout: SET of the blacklist entry, its result dropped.
StepLogoutBlacklist(p) ==
    \E fail \in BOOLEAN :
        /\ procs[p].pc = "logoutSet"
        /\ StoreAnswers(fail)
        /\ UNCHANGED calls
        /\ Step(p, [procs[p] EXCEPT !.pc = "logoutDel"],
                IF Aborted(p, StoreCtx) \/ fail THEN store
                ELSE RedisSet(store, BlacklistWriteKey(procs[p].token), Lit("1"),
                              TimeOf(RefreshExpiration), now),
                {})

\* A slip: only the refresh key is deleted.
StepLogoutDelRefreshOnly(p) ==
    \E fail \in BOOLEAN :
        /\ procs[p].pc = "logoutDel"
        /\ StoreAnswers(fail)
        /\ UNCHANGED calls
        /\ IF Aborted(p, StoreCtx) THEN Step(p, Return(p, Canceled), store, {})
           ELSE IF fail THEN Step(p, Return(p, RedisDown), store, {})
           ELSE Step(p, Return(p, Nil),
                     RedisDel(store, {LogoutRefreshKey(procs[p].userID)}),
                     {})

\* Logout: DEL of the two session keys, and the return.
StepLogoutDel(p) ==
    \E fail \in BOOLEAN :
        /\ procs[p].pc = "logoutDel"
        /\ StoreAnswers(fail)
        /\ UNCHANGED calls
        /\ IF Aborted(p, StoreCtx) THEN Step(p, Return(p, Canceled), store, {})
           ELSE IF fail THEN Step(p, Return(p, RedisDown), store, {})
           ELSE Step(p, Return(p, Nil),
                     RedisDel(store, {LogoutRefreshKey(procs[p].userID),
                                      LogoutAccessKey(procs[p].userID)}),
                     {})

\* The goroutines are interchangeable: p2 is the one that starts second.
InTurn(p) == p = "p1" \/ procs["p1"].pc # "idle"

StartRefreshInTurn(p) == InTurn(p) /\ RefreshStart(p)
StartLogoutInTurn(p) == InTurn(p) /\ LogoutStart(p)

NextRace ==
    \/ Tick
    \/ Establish
    \/ \E p \in Procs : StartRefreshInTurn(p)
    \/ \E p \in Procs : StepIsTokenBlacklisted(p)
    \/ \E p \in Procs : StepParse(p)
    \/ \E p \in Procs : StepVerifyRefreshTokenInRedis(p)
    \/ \E p \in Procs : StepGenerateAccess(p)
    \/ \E p \in Procs : StepGenerateRefresh(p)
    \/ \E p \in Procs : StepStoreRefresh(p)
    \/ \E p \in Procs : StepStoreAccess(p)
    \/ \E p \in Procs : StartLogoutInTurn(p)
    \/ \E p \in Procs : StepLogoutGet(p)
    \/ \E p \in Procs : StepLogoutBlacklist(p)
    \/ \E p \in Procs : StepLogoutDel(p)

SpecRace == Init /\ [][NextRace]_vars

\* ------------------------------------------------------------ the HTTP boundary
StatusOK == 200
StatusCreated == 201
StatusBadRequest == 400
StatusUnauthorized == 401
StatusInternalServerError == 500

\* What a login request may carry: a registered or an unknown email, the
\* right or a wrong password.
Emails == {User(u).Email : u \in Users} \cup {<<"nobody", "@example.com">>}
Passwords == {"correct horse", "wrong"}

\* The rows a query sees: gorm leaves out the soft-deleted ones.
Live(db) == {rec \in db : rec.DeletedAt = Nil}

\* userRepository.GetByEmail: no record is (nil, nil).
GetByEmail(db, email) ==
    IF \E rec \in Live(db) : rec.Email = email
    THEN [user |-> CHOOSE rec \in Live(db) : rec.Email = email, err |-> Nil]
    ELSE [user |-> NilUser, err |-> Nil]

\* userRepository.GetByID: no record is (nil, nil).
GetByID(db, id) ==
    IF \E rec \in Live(db) : rec.ID = id
    THEN [user |-> CHOOSE rec \in Live(db) : rec.ID = id, err |-> Nil]
    ELSE [user |-> NilUser, err |-> Nil]

\* userRepository.ExistsByEmail: the count of the rows with the email.
ExistsByEmail(db, email) == Cardinality({rec \in Live(db) : rec.Email = email}) > 0

\* User.BeforeCreate: the id of a new row is a fresh uuid.
NewIDs == {"u3"}
NewID(db) == CHOOSE id \in NewIDs : \A rec \in db : rec.ID # id

\* userRepository.Create: the email column is unique over all rows, the
\* soft-deleted ones included.
UniqueViolation == "duplicate key value violates unique constraint"
Create(db, user) ==
    IF \E rec \in db : rec.Email = user.Email
    THEN [db |-> db, user |-> user, err |-> UniqueViolation]
    ELSE [db |-> db \cup {[user EXCEPT !.ID = NewID(db)]},
          user |-> [user EXCEPT !.ID = NewID(db)], err |-> Nil]

\* userRepository.Delete: a soft delete, the row stays with deleted_at set.
Delete(db, id) == {IF rec.ID = id /\ rec.DeletedAt = Nil THEN [rec EXCEPT !.DeletedAt = "deleted"] ELSE rec
                   : rec \in db}

\* password.CheckPassword: bcrypt.CompareHashAndPassword.
CheckPassword(password, hashedPassword) ==
    IF hashedPassword.bcrypt = password THEN Nil ELSE "invalid password"

NilDereference == "runtime error: invalid memory address or nil pointer dereference"

\* A slip: the pair is issued before the password is checked.
LoginIssuesBeforeCheck(db, s, email, password, t, down) ==
    LET got == GetByEmail(db, email)
        none == [store |-> s, access |-> <<>>, refresh |-> <<>>, created |-> {}]
        pair == GenerateTokenPair(s, [ID |-> got.user.ID, Email |-> got.user.Email], t, down, 0)
    IN  IF got.err # Nil THEN [err |-> got.err, panic |-> Nil] @@ none
        ELSE IF got.user = NilUser THEN [err |-> Nil, panic |-> NilDereference] @@ none
        ELSE IF CheckPassword(password, got.user.Password) # Nil
        THEN [err |-> "invalid password", panic |-> Nil, access |-> <<>>, refresh |-> <<>>] @@ pair
        ELSE [panic |-> Nil] @@ pair

\* authService.Login: user.Password is read whether or not a user was found.
Login(db, s, email, password, t, down) ==
    LET got == GetByEmail(db, email)
        none == [store |-> s, access |-> <<>>, refresh |-> <<>>, created |-> {}]
    IN  IF got.err # Nil THEN [err |-> got.err, panic |-> Nil] @@ none
        ELSE IF got.user = NilUser THEN [err |-> Nil, panic |-> NilDereference] @@ none
        ELSE IF CheckPassword(password, got.user.Password) # Nil
        THEN [err |-> "invalid password", panic |-> Nil] @@ none
        ELSE [panic |-> Nil]
             @@ GenerateTokenPair(s, [ID |-> got.user.ID, Email |-> got.user.Email], t, down, 0)

\* authService.Register: the email is looked up, the password hashed, the row
\* created, and the pair issued for the new row; a pair that cannot be stored
\* leaves the row behind.
Register(db, s, email, password, t, down) ==
    LET user == [ID |-> "", Email |-> email, Password |-> HashPassword(password), DeletedAt |-> Nil]
        made == Create(db, user)
        none == [store |-> s, access |-> <<>>, refresh |-> <<>>, created |-> {}]
    IN  IF ExistsByEmail(db, email) THEN [db |-> db, err |-> "email already exists"] @@ none
        ELSE IF made.err # Nil THEN [db |-> db, err |-> "failed to create user"] @@ none
        ELSE [db |-> made.db]
             @@ GenerateTokenPair(s, [ID |-> made.user.ID, Email |-> made.user.Email], t, down, 0)

\* authService.ValidateToken: the subject of a valid access token is looked up
\* and handed to NewUserResponse, which reads its fields whether or not a
\* row was found.
ServiceValidateToken(db, s, token, t, down) ==
    LET v == ValidateToken(s, token, AccessToken, t, down)
        got == GetByID(db, v.claims.user_id)
    IN  IF v.err # Nil THEN [user |-> NilUser, err |-> v.err, panic |-> Nil]
        ELSE IF got.err # Nil THEN [user |-> NilUser, err |-> got.err, panic |-> Nil]
        ELSE IF got.user = NilUser THEN [user |-> NilUser, err |-> Nil, panic |-> NilDereference]
        ELSE [user |-> [ID |-> got.user.ID, Email |-> got.user.Email], err |-> Nil, panic |-> Nil]

\* userService.DeleteUser.
DeleteUser(db, id) ==
    IF GetByID(db, id).user = NilUser
    THEN [db |-> db, err |-> "user not found"]
    ELSE [db |-> Delete(db, id), err |-> Nil]

\* utils.ErrorResponse and utils.SuccessResponse: the status and the message.
Response(status, message) == [status |-> status, message |-> message]

\* AuthHandler.Register on a well-formed body.
RegisterResponse(r) ==
    IF r.err # Nil THEN Response(StatusBadRequest, r.err)
    ELSE Response(StatusCreated, "User registered successfully")

\* AuthHandler.Login on a well-formed body; a panic is answered by the recover
\* middleware through the application's ErrorHandler.
LoginResponse(r) ==
    IF r.panic # Nil THEN Response(StatusInternalServerError, r.panic)
    ELSE IF r.err # Nil THEN Response(StatusUnauthorized, r.err)
    ELSE Response(StatusOK, "Login successful")

\* AuthHandler.RefreshToken on a well-formed body, around authService.RefreshToken.
RefreshTokenResponse(r) ==
    IF r.err # Nil THEN Response(StatusUnauthorized, r.err)
    ELSE Response(StatusOK, "Token refreshed successfully")

\* An empty string.
Empty == <<>>

\* authService.RefreshToken: the token is taken from the Authorization header
\* (less its "Bearer " prefix); the parameter refreshToken is not read.
\* `handed` is the string TokenManager.RefreshToken is called with.
ServiceRefreshToken(s, authorization, refreshToken, t, down) ==
    IF authorization = Empty
    THEN [store |-> s, err |-> "Refresh token is required", access |-> <<>>, refresh |-> <<>>,
          created |-> {}, called |-> FALSE, handed |-> Empty]
    ELSE RefreshTokenOp(s, authorization, t, down) @@ [called |-> TRUE, handed |-> authorization]

\* AuthHandler.RefreshToken: the body {refresh_token} is validated, then the
\* service is called with the request and the field.
RefreshTokenRequest(s, authorization, refresh_token, t, down) ==
    LET r == ServiceRefreshToken(s, authorization, refresh_token, t, down)
    IN  IF refresh_token = Empty
        THEN [store |-> s, access |-> <<>>, refresh |-> <<>>, created |-> {}, called |-> FALSE,
              handed |-> Empty] @@ Response(StatusBadRequest, "Refresh token is required")
        ELSE r @@ RefreshTokenResponse(r)

\* middleware.AuthMiddleware on a header "Bearer <token>".
AuthMiddleware(s, token, t, down) ==
    LET v == ValidateToken(s, token, AccessToken, t, down)
    IN  IF v.err # Nil
        THEN Response(StatusUnauthorized, "invalid or expired token") @@ [userID |-> "", email |-> <<>>]
        ELSE Response(StatusOK, "") @@ [userID |-> v.claims.user_id, email |-> v.claims.email]

\* AuthHandler.Logout behind AuthMiddleware: the EXISTS of the middleware is
\* call 1, the three store calls of Logout are calls 2 to 4.
LogoutRequest(s, token, t, down) ==
    LET m == AuthMiddleware(s, token, t, down)
        r == Logout(s, m.userID, t, {i - 1 : i \in down \ {1}})
    IN  IF m.status # StatusOK THEN [store |-> s, status |-> m.status, message |-> m.message]
        ELSE IF r.err # Nil
        THEN [store |-> r.store, status |-> StatusInternalServerError, message |-> r.err]
        ELSE [store |-> r.store, status |-> StatusOK, message |-> "Successfully logged out"]


\* ------------------------------------------------------------ the gateway plugin
\* The key the plugin is configured with: the deployment gives it the key the
\* user service signs with.
public_key == secretKey

\* resty.jwt verify: the signature under the key, then exp and nbf.
JwtVerify(key, token, t) ==
    /\ WellFormed(token)
    /\ token[1].alg \in {"HS256", "HS512"}
    /\ token[1].sig = HMAC(key, token[1].alg, token[1].claims)
    /\ t < TimeOf(token[1].claims.exp)
    /\ t >= TimeOf(token[1].claims.nbf)

\* JwtBlacklistHandler:access builds its key from the jti claim or, the tokens
\* of this service carrying none, from the raw token.
GatewayBlacklistKey(token) == Lit("blacklist:") \o token

\* The two copies of the plugin in the repository, and the claim each one
\* injects as X-User-Id.
Plugins == {"user-auth-token-handler", "crypto-decrypt"}
InjectedUserId(plugin, payload) ==
    IF plugin = "user-auth-token-handler" THEN payload.user_id ELSE payload.sub

\* JwtBlacklistHandler:access on a header "Bearer <token>", with no role,
\* permission or owner requirement configured; the connection to Redis is
\* call 1.  Status 200 stands for the request being passed upstream.
GatewayAccess(plugin, s, token, t, down) ==
    IF ~JwtVerify(public_key, token, t)
    THEN Response(StatusUnauthorized, "Unauthorized") @@ [XUserId |-> ""]
    ELSE IF 1 \in down
    THEN Response(StatusInternalServerError, "Redis unavailable") @@ [XUserId |-> ""]
    ELSE IF RedisGet(s, GatewayBlacklistKey(token)).err = Nil
    THEN Response(StatusUnauthorized, "Token revoked") @@ [XUserId |-> ""]
    ELSE Response(StatusOK, "") @@ [XUserId |-> InjectedUserId(plugin, token[1].claims)]

\* ------------------------------------------------------------ requests
\* The requests that reach the user service and the gateway, each handled as a
\* whole; `last` keeps the request and the response the client sees.
NoRequest == [op |-> "none", email |-> <<>>, password |-> "", token |-> <<>>, plugin |-> "",
              status |-> 0, message |-> "", userID |-> "", access |-> <<>>, refresh |-> <<>>,
              body |-> <<>>, called |-> FALSE, handed |-> <<>>, fault |-> Nil, created |-> {}]

\* POST /auth/login
HandleLogin ==
    \E email \in Emails, password \in Passwords, down \in Failures(2) :
        /\ Fails(down)
        /\ \E r \in {Login(users, store, email, password, now, down)} :
               /\ store' = r.store
               /\ last' = [NoRequest EXCEPT !.op = "Login", !.email = email, !.password = password,
                                            !.status = LoginResponse(r).status,
                                            !.message = LoginResponse(r).message,
                                            !.access = r.access, !.refresh = r.refresh,
                                            !.fault = r.panic, !.created = r.created]
               /\ Remember(r.store, now, r.created)
               /\ UNCHANGED <<now, procs, users>>

\* What a refresh request may carry: in its body a refresh token the service
\* issued or nothing, in its Authorization header any issued token, garbage
\* or nothing.
RefreshBodies == {tok \in issued : KindOf(tok) = RefreshToken} \cup {Empty}
RefreshHeaders == issued \cup {Lit("garbage"), Empty}

\* POST /auth/register
HandleRegister ==
    \E email \in Emails, password \in Passwords, down \in Failures(2) :
        /\ Fails(down)
        /\ \E r \in {Register(users, store, email, password, now, down)} :
               /\ store' = r.store
               /\ users' = r.db
               /\ last' = [NoRequest EXCEPT !.op = "Register", !.email = email, !.password = password,
                                            !.status = RegisterResponse(r).status,
                                            !.message = RegisterResponse(r).message,
                                            !.access = r.access, !.refresh = r.refresh,
                                            !.created = r.created]
               /\ Remember(r.store, now, r.created)
               /\ UNCHANGED <<now, procs>>

\* POST /auth/refresh
HandleRefreshToken ==
    \E tok \in RefreshHeaders, body \in RefreshBodies, down \in Failures(4) :
        /\ Fails(down)
        /\ \E r \in {RefreshTokenRequest(store, tok, body, now, down)} :
               /\ store' = r.store
               /\ last' = [NoRequest EXCEPT !.op = "RefreshToken", !.token = tok, !.body = body,
                                            !.status = r.status, !.message = r.message,
                                            !.access = r.access, !.refresh = r.refresh,
                                            !.called = r.called, !.handed = r.handed,
                                            !.created = r.created]
               /\ Remember(r.store, now, r.created)
               /\ UNCHANGED <<now, procs, users>>

\* POST /auth/logout, behind AuthMiddleware
HandleLogout ==
    \E tok \in issued \cup {Lit("garbage")}, down \in Failures(4) :
        /\ Fails(down)
        /\ \E r \in {LogoutRequest(store, tok, now, down)} :
               /\ store' = r.store
               /\ last' = [NoRequest EXCEPT !.op = "Logout", !.token = tok,
                                            !.status = r.status, !.message = r.message,
                                            !.userID = AuthMiddleware(store, tok, now, down).userID]
               /\ Remember(r.store, now, {})
               /\ UNCHANGED <<now, procs, users>>

\* A request to a route of the gateway that the plugin guards.
GatewayRequest ==
    \E plugin \in Plugins, tok \in issued \cup {Lit("garbage")}, down \in Failures(1) :
        /\ Fails(down)
        /\ \E r \in {GatewayAccess(plugin, store, tok, now, down)} :
               /\ last' = [NoRequest EXCEPT !.op = "Gateway", !.token = tok, !.plugin = plugin,
                                            !.status = r.status, !.message = r.message,
                                            !.userID = r.XUserId]
               /\ Remember(store, now, {})
               /\ UNCHANGED <<store, now, procs, users>>

\* authService.ValidateToken called with an issued token.
CallServiceValidateToken ==
    \E tok \in issued, down \in Failures(1) :
        /\ Fails(down)
        /\ \E r \in {ServiceValidateToken(users, store, tok, now, down)} :
               /\ last' = [NoRequest EXCEPT !.op = "ValidateToken", !.token = tok,
                                            !.message = r.err, !.fault = r.panic,
                                            !.userID = IF r.user = NilUser THEN "" ELSE r.user.ID]
               /\ Remember(store, now, {})
               /\ UNCHANGED <<store, now, procs, users>>

\* userService.DeleteUser called with the id of a row.
CallDeleteUser ==
    \E id \in {rec.ID : rec \in users} :
        /\ Fails({})
        /\ \E r \in {DeleteUser(users, id)} :
               /\ users' = r.db
               /\ last' = [NoRequest EXCEPT !.op = "DeleteUser", !.userID = id, !.message = r.err]
               /\ Remember(store, now, {})
               /\ UNCHANGED <<store, now, procs>>

NextAuth ==
    \/ Tick
    \/ HandleLogin
    \/ HandleRefreshToken
    \/ HandleLogout
    \/ GatewayRequest

SpecAuth == Init /\ [][NextAuth]_vars

\* The requests that read or change the users table.
NextAccounts ==
    \/ Tick
    \/ HandleRegister
    \/ HandleLogin
    \/ CallServiceValidateToken
    \/ CallDeleteUser

SpecAccounts == Init /\ [][NextAccounts]_vars

\* ------------------------------------------------------------ helpers of the claims
\* The token strings issued to a subject.
IssuedTo(u) == {tok \in issued : ClaimsOf(tok).user_id = u}

\* Signed by this service and unexpired at t.
Unexpired(tokenString, t) == ParseWithClaims(tokenString, t).err = Nil

\* ------------------------------------------------------------ C1
\* C1: after every RefreshToken(old) call that returns success, whenever it is
\* made, ValidateToken(old, refresh) fails and ValidateToken(new, refresh)
\* succeeds, new being the refresh token the call returned.
C1_RotationInvalidates ==
    (last.op = "RefreshToken" /\ last.err = Nil) =>
        /\ ~Passes(store, last.token, RefreshToken, now)
        /\ Passes(store, last.refresh, RefreshToken, now)

\* ------------------------------------------------------------ C2
\* C2: after InvalidateToken(token, kind, ttl) returns success with ttl > 0,
\* ValidateToken(token, kind) fails, for access and refresh tokens alike.
C2_InvalidatedTokenRejected ==
    (last.op = "InvalidateToken" /\ last.err = Nil /\ last.ttl > 0) =>
        ~Passes(store, last.token, KindOf(last.token), now)

\* ------------------------------------------------------------ C3
\* C3: after Logout(subject) returns success, every token issued to the subject
\* before, its unexpired access token included, fails ValidateToken for its kind.
C3_LogoutInvalidatesAllTokens ==
    (last.op = "Logout" /\ last.err = Nil) =>
        \A tok \in IssuedTo(last.user) : ~Passes(store, tok, KindOf(tok), now)

\* ------------------------------------------------------------ C4
\* C4: after Logout(subject) returns success, neither session key of the
\* subject exists in the store and no refresh token issued to the subject,
\* the one that was authoritative before the logout included, passes
\* ValidateToken(_, refresh).
C4_LogoutRemovesSession ==
    (last.op = "Logout" /\ last.err = Nil) =>
        /\ GenRefreshKey(last.user) \notin DOMAIN store
        /\ GenAccessKey(last.user) \notin DOMAIN store
        /\ \A tok \in IssuedTo(last.user) : ~Passes(store, tok, RefreshToken, now)

\* A successful logout that found an unexpired refresh token in the store.
C4_Witness ==
    /\ last.op = "Logout" /\ last.err = Nil
    /\ last.token \in IssuedTo(last.user)
    /\ Unexpired(last.token, now)

\* ------------------------------------------------------------ C5
\* The token strings naming subject u that anyone may present.
PresentableFor(u) ==
    IssuedTo(u) \cup {c \in Crafted(now) : WellFormed(c) /\ ClaimsOf(c).user_id = u}

\* C5: for each subject at most one refresh token string passes
\* ValidateToken(_, refresh); any other unexpired refresh token of the subject
\* is rejected as not being the stored value.
C5_OneAuthoritativeRefreshToken ==
    \A u \in Users :
        /\ Cardinality({tok \in PresentableFor(u) : Passes(store, tok, RefreshToken, now)}) <= 1
        /\ \A tok \in IssuedTo(u) :
              ( /\ KindOf(tok) = RefreshToken
                /\ Unexpired(tok, now)
                /\ ~isTokenBlacklisted(store, tok, {}).blacklisted
                /\ RedisGet(store, VerifyRefreshKey(u)).val # tok )
              => ValidateToken(store, tok, RefreshToken, now, {}).err
                     = "invalid or expired refresh token"

\* Two unexpired refresh tokens of one subject, one authoritative, one not.
C5_Witness ==
    \E u \in Users : \E t1, t2 \in IssuedTo(u) :
        /\ t1 # t2
        /\ ClaimsOf(t1).sub = RefreshToken /\ ClaimsOf(t2).sub = RefreshToken
        /\ Unexpired(t1, now) /\ Unexpired(t2, now)
        /\ Passes(store, t1, RefreshToken, now)
        /\ ~Passes(store, t2, RefreshToken, now)

\* ------------------------------------------------------------ C6
\* C6: a refresh token string that has stopped passing ValidateToken(_, refresh)
\* (superseded, removed by logout, or expired) never passes it again.
C6_NoPathBackToAuthoritative ==
    \A tok \in stale : ~Passes(store, tok, RefreshToken, now)

\* ------------------------------------------------------------ C7
\* C7 as stated: when GenerateTokenPair returns an error because a store write
\* failed, no token created during the call passes ValidateToken afterwards.
C7_NoTokenOfFailedIssuancePasses ==
    (last.op = "GenerateTokenPair" /\ last.err # Nil) =>
        \A tok \in last.created : ~Passes(store, tok, KindOf(tok), now)

\* C7 as amended: a GenerateTokenPair call that fails on a store write returns
\* no token and leaves access:<subject> as it was; when it is the refresh write
\* that failed, it leaves the whole store as it was.
C7_FailedIssuanceReturnsNothing ==
    [][ (last'.op = "GenerateTokenPair" /\ last'.err # Nil /\ calls' = calls + 1) =>
            /\ last'.access = <<>> /\ last'.refresh = <<>>
            /\ RedisGet(store', GenAccessKey(last'.user))
                   = RedisGet(store, GenAccessKey(last'.user))
            /\ (last'.err = "failed to store refresh token" => store' = store)
            /\ (last'.err = "failed to store access token" =>
                    \A k \in (DOMAIN store \cup DOMAIN store') \ {GenRefreshKey(last'.user)} :
                        k \in DOMAIN store /\ k \in DOMAIN store' /\ store'[k] = store[k])
      ]_vars

\* A failed issuance whose refresh token is nevertheless stored and valid.
C7_Witness ==
    /\ last.op = "GenerateTokenPair" /\ last.err = "failed to store access token"
    /\ \E tok \in last.created : Passes(store, tok, RefreshToken, now)

\* ------------------------------------------------------------ C8
\* A decodable token whose expires_at is not in the future at t.
Expired(tokenString, t) == WellFormed(tokenString) /\ ~(t < TimeOf(ClaimsOf(tokenString).exp))

\* C8: a token whose expires_at is not in the future is rejected by
\* ValidateToken for either kind, whatever the store holds and whether or not
\* the store answers: an issued token past its lifetime, and a token issued
\* with a negative lifetime.
C8_ExpiredTokenRejected ==
    \A tok \in issued \cup Crafted(now) :
        Expired(tok, now) =>
            \A k \in TokenTypes, down \in Failures(2) :
                ValidateToken(store, tok, k, now, down).err # Nil

\* An issued access token, validated as access after its lifetime, is refused.
C8_Witness ==
    /\ last.op = "ValidateToken" /\ last.kind = AccessToken
    /\ last.token \in issued
    /\ KindOf(last.token) = AccessToken
    /\ Expired(last.token, now)
    /\ last.err = "invalid token"
    /\ generateToken(User("u1"), AccessToken, -1, now).tokenString \in Crafted(now)

\* ------------------------------------------------------------ C9
\* C9: an unexpired, non-blacklisted access token presented as a refresh token
\* fails with "invalid token type", and so does an authoritative refresh token
\* presented as an access token.
C9_WrongKindRejected ==
    \A tok \in issued :
        (Unexpired(tok, now) /\ ~isTokenBlacklisted(store, tok, {}).blacklisted) =>
            /\ KindOf(tok) = AccessToken =>
                   ValidateToken(store, tok, RefreshToken, now, {}).err = "invalid token type"
            /\ (KindOf(tok) = RefreshToken /\ Passes(store, tok, RefreshToken, now)) =>
                   ValidateToken(store, tok, AccessToken, now, {}).err = "invalid token type"

\* A valid access token was presented as a refresh token and refused.
C9_Witness ==
    /\ last.op = "ValidateToken" /\ last.kind = RefreshToken
    /\ last.token \in issued
    /\ KindOf(last.token) = AccessToken
    /\ Unexpired(last.token, now)
    /\ last.err = "invalid token type"

\* ------------------------------------------------------------ C10
\* The token validates as `kind` and its claims are those issued to u now.
RoundTrip(tokenString, kind, lifetime, u) ==
    LET v == ValidateToken(store, tokenString, kind, now, {}) IN
    /\ v.err = Nil
    /\ v.claims.user_id = User(u).ID
    /\ v.claims.email = User(u).Email
    /\ v.claims.sub = kind
    /\ v.claims.iat = NumericDate(now)
    /\ v.claims.exp = v.claims.iat + lifetime

\* C10: right after GenerateTokenPair(user) returns success, both tokens pass
\* ValidateToken for their kind, with claims carrying the user's id and email,
\* the kind as purpose, and an expiry equal to issued-at plus the configured
\* lifetime of the kind.
C10_IssueValidateRoundTrip ==
    (last.op = "GenerateTokenPair" /\ last.err = Nil) =>
        /\ RoundTrip(last.access, AccessToken, Expiration, last.user)
        /\ RoundTrip(last.refresh, RefreshToken, RefreshExpiration, last.user)

\* A pair has just been issued.
C10_Witness ==
    /\ last.op = "GenerateTokenPair" /\ last.err = Nil
    /\ last.access # last.refresh
    /\ Held(store) = {last.access, last.refresh}

\* ------------------------------------------------------------ C11
\* Two RefreshToken calls that presented the same token have both returned
\* success, p's refresh token written before q's, no one has written the
\* subject's refresh key since, and neither new token has expired.
BothRefreshed(p, q) ==
    /\ procs[p].pc = "done" /\ procs[q].pc = "done"
    /\ procs[p].err = Nil /\ procs[q].err = Nil
    /\ procs[p].token = procs[q].token
    /\ 0 < procs[p].order /\ procs[p].order < procs[q].order
    /\ RedisGet(store, GenRefreshKey(UserOf(q).ID)).val \in {procs[p].refresh, procs[q].refresh}
    /\ Unexpired(procs[p].refresh, now) /\ Unexpired(procs[q].refresh, now)

\* C11: when two concurrent RefreshToken calls presenting the same
\* authoritative refresh token have both returned success, the refresh token
\* of the call whose store write came last passes ValidateToken(_, refresh)
\* and the other newly issued refresh token fails it.
C11_LastWriterWins ==
    \A p, q \in Procs :
        BothRefreshed(p, q) =>
            /\ Passes(store, procs[q].refresh, RefreshToken, now)
            /\ ~Passes(store, procs[p].refresh, RefreshToken, now)

\* ------------------------------------------------------------ C12
\* The keys of the persisted layout: access:<subject_id>, refresh:<subject_id>
\* and blacklist:<token_string>.
LayoutKeys ==
    {Lit("access:") \o Lit(u) : u \in Users}
    \cup {Lit("refresh:") \o Lit(u) : u \in Users}
    \cup {Lit("blacklist:") \o tok : tok \in issued}

\* C12: every key the token manager has written is of the form
\* access:<subject_id>, refresh:<subject_id> or blacklist:<token_string>, and
\* the blacklist key that Logout and InvalidateToken write for a token is the
\* key that ValidateToken's blacklist check and the gateway plugin read for it.
C12_PersistedKeyLayout ==
    /\ DOMAIN store \subseteq LayoutKeys
    /\ \A tok \in issued :
           /\ BlacklistWriteKey(tok) = BlacklistReadKey(tok)
           /\ BlacklistWriteKey(tok) = GatewayBlacklistKey(tok)

\* ------------------------------------------------------------ C13
\* The messages with which the token manager reports a failed store call.
StoreFailureMessages ==
    {"failed to check token status", "failed to store refresh token",
     "failed to store access token", RedisDown}

\* The response is a 5xx and does not carry the message m.
Transient(resp, m) == resp.status >= StatusInternalServerError /\ resp.message # m

\* C13: a store failure during login, refresh or token validation is answered
\* with a 5xx-equivalent that differs from the answer to an invalid, expired or
\* stale token: a response reporting a failed store call is not a 401, and a
\* valid token whose store lookup fails is not answered "invalid or expired".
C13_StoreFailureIsTransient ==
    /\ (last.op \in {"Login", "RefreshToken", "Logout"} /\ last.message \in StoreFailureMessages)
           => last.status >= StatusInternalServerError
    /\ \A tok \in issued :
           /\ Passes(store, tok, RefreshToken, now) =>
                  Transient(RefreshTokenResponse(RefreshTokenOp(store, tok, now, {2})),
                            "invalid or expired refresh token")
           /\ Passes(store, tok, AccessToken, now) =>
                  Transient(AuthMiddleware(store, tok, now, {1}), "invalid or expired token")

\* ------------------------------------------------------------ C14
\* C14: Logout returns an error when one of its store writes failed: when the
\* refresh token it found has not been written to the blacklist, and when a
\* session key of the subject has not been deleted.
C14_LogoutReportsStoreFailures ==
    last.op = "Logout" =>
        /\ (last.token # <<>> /\ BlacklistWriteKey(last.token) \notin DOMAIN store)
               => last.err # Nil
        /\ ({LogoutRefreshKey(last.user), LogoutAccessKey(last.user)} \cap DOMAIN store # {})
               => last.err # Nil

\* ------------------------------------------------------------ C15
\* C15: a Logout(subject) whose store calls all succeed returns success; when
\* it directly follows a successful Logout of the same subject it finds no
\* refresh:<subject> value, writes no blacklist entry and leaves the store as
\* it was.
C15_LogoutIdempotent ==
    [][ (last'.op = "Logout" /\ calls' = calls + 1 /\ failures' = failures) =>
            /\ last'.err = Nil
            /\ (last.op = "Logout" /\ last.err = Nil /\ last.user = last'.user) =>
                   /\ last'.token = <<>>
                   /\ store' = store
      ]_vars

\* A Logout that found nothing, in the tick in which a Logout blacklisted the
\* refresh token of the same subject.
C15_Witness ==
    /\ last.op = "Logout" /\ last.err = Nil /\ last.token = <<>>
    /\ calls >= 3
    /\ \E tok \in IssuedTo(last.user) :
           /\ BlacklistWriteKey(tok) \in DOMAIN store
           /\ store[BlacklistWriteKey(tok)].dl = now + TimeOf(RefreshExpiration)

\* ------------------------------------------------------------ C16
\* C16: the gateway plugin passes a request upstream only when its bearer
\* token would pass ValidateToken(token, access) (a refresh token is
\* rejected), and the X-User-Id it injects is the user_id claim of the token.
C16_GatewayValidatesAsAccess ==
    (last.op = "Gateway" /\ last.status = StatusOK) =>
        /\ Passes(store, last.token, AccessToken, now)
        /\ last.userID = ClaimsOf(last.token).user_id

\* ------------------------------------------------------------ C17
\* The answer to a login with a registered email and a wrong password.
WrongPasswordResponse(u) == LoginResponse(Login(users, store, User(u).Email, "wrong", now, {}))

\* C17: a login with an email that is not registered gets the same status and
\* message as a login with a registered email and a wrong password.
C17_NoAccountEnumeration ==
    (last.op = "Login" /\ GetByEmail(users, last.email).user = NilUser) =>
        \A u \in Users :
            Response(last.status, last.message) = WrongPasswordResponse(u)

\* ------------------------------------------------------------ C18
\* The last request was refused because of the token it carried.
TokenRefused == last.status = StatusUnauthorized /\ last.message \notin StoreFailureMessages

\* The status and the message with which each endpoint refuses a malformed token.
RefusalOfRefresh == RefreshTokenResponse(RefreshTokenOp(store, Lit("garbage"), now, {}))
RefusalOfMiddleware == AuthMiddleware(store, Lit("garbage"), now, {})
RefusalOfGateway(plugin) == GatewayAccess(plugin, store, Lit("garbage"), now, {})

\* C18: whatever the reason a token is refused for (malformed, expired,
\* blacklisted, wrong kind, superseded), the refresh endpoint answers with one
\* status and message, and so does the access-token check of the service and
\* of the gateway.
C18_RejectionReasonNotLeaked ==
    /\ (last.op = "RefreshToken" /\ TokenRefused) =>
           Response(last.status, last.message) = RefusalOfRefresh
    /\ (last.op = "Logout" /\ TokenRefused) =>
           /\ last.status = RefusalOfMiddleware.status
           /\ last.message = RefusalOfMiddleware.message
    /\ (last.op = "Gateway" /\ TokenRefused) =>
           /\ last.status = RefusalOfGateway(last.plugin).status
           /\ last.message = RefusalOfGateway(last.plugin).message

\* ------------------------------------------------------------ C19
\* The subject an operation is performed for: the user it is called with, or
\* the user the token it is called with names.
SubjectOf(call) ==
    IF call.op \in {"GenerateTokenPair", "Logout"} THEN call.user
    ELSE IF WellFormed(call.token) THEN ClaimsOf(call.token).user_id
    ELSE ""

\* What the store holds under a key.
Entry(s, key) == IF key \in DOMAIN s THEN s[key] ELSE [absent |-> TRUE]

\* C19: an operation performed for one subject leaves the access and refresh
\* keys of every other subject as they were, and leaves the outcome of
\* ValidateToken as it was for every token of every other subject.
C19_SubjectIsolation ==
    [][ \A b \in Users :
            (calls' = calls + 1 /\ SubjectOf(last') # b) =>
                /\ Entry(store', GenAccessKey(b)) = Entry(store, GenAccessKey(b))
                /\ Entry(store', GenRefreshKey(b)) = Entry(store, GenRefreshKey(b))
                /\ \A tok \in IssuedTo(b), k \in TokenTypes :
                       ValidateToken(store', tok, k, now', {}).err
                           = ValidateToken(store, tok, k, now, {}).err
      ]_vars

\* An operation that wrote the store for one subject while another subject
\* had a session and a refresh token that passes.
C19_Witness ==
    /\ last.op \in {"GenerateTokenPair", "Logout", "RefreshToken"} /\ last.err = Nil
    /\ \E b \in Users \ {SubjectOf(last)} :
           /\ GenAccessKey(b) \in DOMAIN store
           /\ \E tok \in IssuedTo(b) : Passes(store, tok, RefreshToken, now)

\* ------------------------------------------------------------ C20
\* C20: a token operation whose caller's request context was cancelled while
\* it waited for the store returns the cancellation error.
C20_CancellationPropagates ==
    \A p \in Procs :
        (procs[p].pc = "done" /\ procs[p].cancelled) => procs[p].err = Canceled

\* ------------------------------------------------------------ C21
\* The access lifetime of the pair a refresh token was issued in has elapsed.
AccessLifetimeElapsed(tokenString, t) == t >= TimeOf(ClaimsOf(tokenString).iat + Expiration)

\* C21: when the access lifetime has elapsed but the refresh token is still
\* authoritative, RefreshToken with it (the store reachable) succeeds and
\* returns an access token that passes ValidateToken(_, access) and a refresh
\* token string different from the one presented.
C21_RefreshAfterAccessExpiry ==
    [][\A tok \in issued :
          (/\ last'.op = "RefreshToken"
           /\ last'.token = tok
           /\ failures' = failures
           /\ Passes(store, tok, RefreshToken, now)
           /\ AccessLifetimeElapsed(tok, now))
          => (/\ last'.err = Nil
              /\ Passes(store', last'.access, AccessToken, now')
              /\ last'.refresh # tok)]_vars

\* A refresh that succeeded after the access lifetime had elapsed.
C21_Witness ==
    /\ last.op = "RefreshToken"
    /\ last.err = Nil
    /\ last.token \in issued
    /\ AccessLifetimeElapsed(last.token, now)
    /\ ~Passes(store, last.token, RefreshToken, now)

\* ------------------------------------------------------------ C22
\* The request of the step is a login with a wrong password for a registered
\* email, or a registration with a registered email.
WrongPasswordLogin ==
    /\ last'.op = "Login"
    /\ GetByEmail(users, last'.email).user # NilUser
    /\ CheckPassword(last'.password, GetByEmail(users, last'.email).user.Password) # Nil
RegisteredEmailRegister ==
    /\ last'.op = "Register"
    /\ ExistsByEmail(users, last'.email)

\* C22: a login with a wrong password and a registration with a registered
\* email are answered with an error, no token is generated, the session store
\* is unchanged and no row is added to the users table.
C22_RejectedIssueNothing ==
    [][/\ WrongPasswordLogin =>
            /\ last'.status = StatusUnauthorized /\ last'.message = "invalid password"
            /\ last'.created = {} /\ last'.access = <<>> /\ last'.refresh = <<>>
            /\ store' = store /\ issued' = issued /\ users' = users
       /\ RegisteredEmailRegister =>
            /\ last'.status = StatusBadRequest /\ last'.message = "email already exists"
            /\ last'.created = {} /\ last'.access = <<>> /\ last'.refresh = <<>>
            /\ store' = store /\ issued' = issued /\ users' = users]_vars

\* A rejected login or registration while a session is stored.
C22_Witness ==
    /\ store # <<>>
    /\ \/ last.op = "Login" /\ last.message = "invalid password"
       \/ last.op = "Register" /\ last.message = "email already exists"

\* ------------------------------------------------------------ C23
\* C23: a refresh request whose body carries a refresh_token hands exactly
\* that string to TokenManager.RefreshToken.
C23_RefreshUsesBodyToken ==
    (last.op = "RefreshToken" /\ last.body # Empty) =>
        (last.called /\ last.handed = last.body)

\* ------------------------------------------------------------ C24
\* The pairs of tokens that one GenerateTokenPair call produced: the pair of
\* a goroutine, or an access and a refresh token of one subject and one
\* issue time.
PairsProduced ==
    {<<procs[p].access, procs[p].refresh>> : p \in Procs}
    \cup {pair \in issued \X issued :
              /\ KindOf(pair[1]) = AccessToken /\ KindOf(pair[2]) = RefreshToken
              /\ ClaimsOf(pair[1]).user_id = ClaimsOf(pair[2]).user_id
              /\ ClaimsOf(pair[1]).iat = ClaimsOf(pair[2]).iat}

\* The tokens held for a subject, when both session keys exist.
BothHeld(s, u) == GenAccessKey(u) \in DOMAIN s /\ GenRefreshKey(u) \in DOMAIN s
HeldPair(s, u) == <<s[GenAccessKey(u)].val, s[GenRefreshKey(u)].val>>

\* C24 as claimed: in every reachable state the tokens held at the access and
\* the refresh key of a subject were produced by one GenerateTokenPair call.
C24_OneGeneration ==
    \A u \in Users : BothHeld(store, u) => HeldPair(store, u) \in PairsProduced

\* C24 as amended: a GenerateTokenPair call that completes both writes, no
\* other call having replaced its refresh token in between, leaves its own
\* pair at the two session keys of the subject.
C24_PairAfterUninterruptedIssuance ==
    [][/\ \A p \in Procs :
            (/\ procs[p].pc = "setAccess" /\ procs'[p].pc = "done" /\ procs'[p].err = Nil
             /\ GenRefreshKey(UserOf(p).ID) \in DOMAIN store
             /\ store[GenRefreshKey(UserOf(p).ID)].val = procs[p].refresh)
            => (/\ BothHeld(store', UserOf(p).ID)
                /\ HeldPair(store', UserOf(p).ID) = <<procs[p].access, procs[p].refresh>>)
       /\ (/\ last'.op = "GenerateTokenPair" /\ last'.err = Nil
           /\ calls' = calls + 1 /\ procs' = procs)
            => (/\ BothHeld(store', last'.user)
                /\ HeldPair(store', last'.user) = <<last'.access, last'.refresh>>)
      ]_vars

\* A goroutine has completed an issuance that replaced the pair of an earlier
\* call, and the two session keys hold its pair.
C24_Witness ==
    \E p \in Procs :
        /\ procs[p].pc = "done" /\ procs[p].err = Nil /\ procs[p].access # <<>>
        /\ BothHeld(store, UserOf(p).ID)
        /\ HeldPair(store, UserOf(p).ID) = <<procs[p].access, procs[p].refresh>>
        /\ procs[p].refresh # procs[p].token

\* ------------------------------------------------------------ C25
\* The goroutines that run Logout and RefreshToken, and the subject of each.
IsLogout(p) == procs[p].userID # ""
IsRefresh(p) == procs[p].pc # "idle" /\ procs[p].userID = ""
SubjectOfProc(p) == IF IsLogout(p) THEN procs[p].userID ELSE UserOf(p).ID

\* No session key of u exists in s and none of the tokens toks that name u
\* passes ValidateToken(_, refresh) at t.
LoggedOut(s, toks, u, t) ==
    /\ GenAccessKey(u) \notin DOMAIN s
    /\ GenRefreshKey(u) \notin DOMAIN s
    /\ \A tok \in toks : ClaimsOf(tok).user_id = u => ~Passes(s, tok, RefreshToken, t)

\* C25 as claimed: once a Logout that returned success and a RefreshToken call
\* for the same subject have both completed, no session key of the subject
\* exists and no refresh token of the subject passes.  (The two calls of such a
\* state overlapped or the refresh came first: after the DEL no refresh token
\* is held for a later RefreshToken to present.)
C25_LogoutFinal ==
    \A p, q \in Procs :
        (/\ IsLogout(p) /\ procs[p].pc = "done" /\ procs[p].err = Nil
         /\ IsRefresh(q) /\ procs[q].pc = "done"
         /\ SubjectOfProc(q) = procs[p].userID)
        => LoggedOut(store, issued, procs[p].userID, now)

\* The statements of RefreshToken after its validation.
Validated == {"genAccess", "genRefresh", "setRefresh", "setAccess"}

\* C25 as amended: when Logout returns success the subject is logged out; it
\* stays so until an issuance writes, which only a login or a RefreshToken
\* call that had passed validation before does; no RefreshToken call passes
\* validation while the subject is logged out.
C25_LogoutFinalUntilIssuance ==
    [][\A u \in Users :
          /\ (\E p \in Procs : /\ procs[p].pc = "logoutDel" /\ procs[p].userID = u
                                /\ procs'[p].pc = "done" /\ procs'[p].err = Nil)
             => LoggedOut(store', issued', u, now')
          /\ (LoggedOut(store, issued, u, now) /\ ~LoggedOut(store', issued', u, now'))
             => \/ \E q \in Procs : /\ IsRefresh(q) /\ SubjectOfProc(q) = u
                                     /\ procs[q].pc \in {"setRefresh", "setAccess"}
                                     /\ procs'[q] # procs[q]
                \/ last'.op = "GenerateTokenPair" /\ last'.user = u /\ calls' = calls + 1
          /\ LoggedOut(store, issued, u, now)
             => ~\E q \in Procs : /\ IsRefresh(q) /\ SubjectOfProc(q) = u
                                   /\ procs[q].pc \notin Validated
                                   /\ procs'[q].pc \in Validated
      ]_vars

\* A Logout returned success while a RefreshToken call for the same subject
\* was past its validation, and both have completed.
C25_Witness ==
    \E p, q \in Procs :
        /\ IsLogout(p) /\ procs[p].pc = "done" /\ procs[p].err = Nil
        /\ IsRefresh(q) /\ procs[q].pc = "done" /\ procs[q].err = Nil
        /\ SubjectOfProc(q) = procs[p].userID
        /\ ~LoggedOut(store, issued, procs[p].userID, now)

\* ------------------------------------------------------------ C26
\* The step is a RefreshToken call that returned an error.
FailedRefresh == last'.op = "RefreshToken" /\ last'.err # Nil /\ calls' = calls + 1

\* The presented token, if it was authoritative before the step, still passes.
StillAuthoritative ==
    (last'.token \in issued /\ Passes(store, last'.token, RefreshToken, now))
        => Passes(store', last'.token, RefreshToken, now')

\* C26 as claimed: whenever RefreshToken returns an error the session keys
\* hold what they held before the call, and a presented refresh token that was
\* authoritative still passes.
C26_FailedRefreshLeavesSession ==
    [][FailedRefresh =>
          /\ \A u \in Users :
                 /\ Entry(store', GenRefreshKey(u)) = Entry(store, GenRefreshKey(u))
                 /\ Entry(store', GenAccessKey(u)) = Entry(store, GenAccessKey(u))
          /\ StillAuthoritative]_vars

\* C26 as amended: a RefreshToken call that fails before its first write (in
\* validation, or at the SET of the refresh token) leaves the store as it was
\* and an authoritative presented token passing; one that fails at the SET
\* of the access token leaves the access key as it was and the new refresh
\* token, which it does not return, at the refresh key, so that a presented
\* token of another string no longer passes.
C26_FailedRefreshBeforeFirstWrite ==
    [][FailedRefresh =>
          IF last'.err = "failed to store access token"
          THEN \E u \in Users :
                  /\ ClaimsOf(last'.token).user_id = u
                  /\ Entry(store', GenAccessKey(u)) = Entry(store, GenAccessKey(u))
                  /\ GenRefreshKey(u) \in DOMAIN store'
                  /\ store'[GenRefreshKey(u)].val \in last'.created
                  /\ last'.refresh = <<>>
                  /\ store'[GenRefreshKey(u)].val # last'.token
                        => ~Passes(store', last'.token, RefreshToken, now')
          ELSE store' = store /\ StillAuthoritative]_vars

\* A refresh of an authoritative token failed before its first write, and
\* the token still passes.
C26_Witness ==
    /\ last.op = "RefreshToken"
    /\ last.err \in {"failed to check token status", "failed to store refresh token"}
    /\ last.token \in issued
    /\ Passes(store, last.token, RefreshToken, now)

\* ------------------------------------------------------------ C27
\* The session keys the store holds.
SessionKeys(s) == {k \in DOMAIN s : \E u \in Users : k \in {GenAccessKey(u), GenRefreshKey(u)}}

\* C27: every session key expires when the token it holds does, so the token
\* a session key holds is unexpired.
C27_SessionKeyExpiresWithToken ==
    \A k \in SessionKeys(store) :
        /\ store[k].dl = TimeOf(ClaimsOf(store[k].val).exp)
        /\ Unexpired(store[k].val, now)

\* ------------------------------------------------------------ C28
\* The step is a Logout, no store call failing, of a user whose refresh key
\* holds the token tok.
LogoutOf(tok) ==
    /\ last'.op = "Logout" /\ calls' = calls + 1 /\ failures' = failures
    /\ LogoutRefreshKey(last'.user) \in DOMAIN store
    /\ store[LogoutRefreshKey(last'.user)].val = tok

\* C28: a Logout of a user whose refresh key holds a token leaves a revocation
\* entry for that token, the one isTokenBlacklisted looks up, with a TTL of
\* the configured refresh lifetime, which does not end before the token does.
C28_LogoutRevocationEntry ==
    [][\A tok \in issued :
          LogoutOf(tok) =>
              /\ BlacklistReadKey(tok) \in DOMAIN store'
              /\ store'[BlacklistReadKey(tok)].dl = now + TimeOf(RefreshExpiration)
              /\ store'[BlacklistReadKey(tok)].dl >= TimeOf(ClaimsOf(tok).exp)]_vars

\* ------------------------------------------------------------ C29
\* What a session key may hold instead: nothing, garbage, or a token.
Absent == <<[absent |-> TRUE]>>
Contents(tokenString) == {Absent, Lit("garbage"), tokenString}

\* The store s with the session keys of u holding a and r.
WithSession(s, u, a, r) ==
    LET keep == DOMAIN s \ {GenAccessKey(u), GenRefreshKey(u)}
        put == {k \in {GenAccessKey(u), GenRefreshKey(u)} :
                   (IF k = GenAccessKey(u) THEN a ELSE r) # Absent}
    IN  [k \in keep \cup put |->
            IF k \in keep THEN s[k]
            ELSE [val |-> IF k = GenAccessKey(u) THEN a ELSE r, dl |-> NoExpiry]]

\* The store s with nothing but the blacklist entry of a token.
OnlyBlacklistEntry(s, tokenString) ==
    [k \in DOMAIN s \cap {BlacklistReadKey(tokenString)} |-> s[k]]

\* C29: the outcome of a ValidateToken(token, access) call is the outcome it
\* has whatever the session keys of the token's subject hold, and the outcome
\* it has in a store with only the blacklist entry of the token.
C29_AccessValidationIgnoresSession ==
    [][(last'.op = "ValidateToken" /\ last'.kind = AccessToken /\ calls' = calls + 1) =>
          \E down \in Failures(2) :
              \A v \in {[claims |-> last'.claims, err |-> last'.err]} :
                  /\ down # {} <=> failures' # failures
                  /\ ValidateToken(store, last'.token, AccessToken, now, down) = v
                  /\ \A a \in Contents(last'.token), r \in Contents(last'.token) :
                         ValidateToken(WithSession(store, ClaimsOf(last'.token).user_id, a, r),
                                       last'.token, AccessToken, now, down) = v
                  /\ ValidateToken(OnlyBlacklistEntry(store, last'.token),
                                   last'.token, AccessToken, now, down) = v]_vars

\* An access token was validated and accepted although its subject has no
\* session key.
C29_Witness ==
    /\ last.op = "ValidateToken" /\ last.kind = AccessToken /\ last.err = Nil
    /\ GenAccessKey(ClaimsOf(last.token).user_id) \notin DOMAIN store
    /\ GenRefreshKey(ClaimsOf(last.token).user_id) \notin DOMAIN store

\* ------------------------------------------------------------ C30
\* C30: Login and authService.ValidateToken return a result or an error and
\* never fault, whatever the users table answers.
C30_TotalOverDirectoryOutcomes ==
    last.op \in {"Login", "ValidateToken"} => last.fault = Nil

====
